---- MODULE Spec2Model ----
(***************************************************************************)
(* zap_bill_payment: the invoice session and notification subsystem of     *)
(* src/app.py.  Websocket authentication (check_auth / on_auth), the       *)
(* per-invoice rooms (ws_invoices, ws_sids, socketio rooms), the status    *)
(* broadcasts, the field codec (validate_values, bank_transaction_details) *)
(* and invoice creation (utility, create_invoice).                         *)
(***************************************************************************)
EXTENDS Integers, Sequences, FiniteSets, TLC

\* ------------------------------------------------------------------ bounds
MaxConns == 2
MaxNonce == 2

MaxTargets == 2
MaxOrders == 2

\* src/app.py:27
MAX_DETAIL_CHARS == 12

Sids == 1..MaxConns
\* the tokens of the Invoice rows the hub starts with
Tokens == {"tokenA", "tokenB"}
\* a token no Invoice row carries
UnknownToken == "unknown"
Nonces == 1..MaxNonce

\* ------------------------------------------------------------------- state
VARIABLES
    invoices,       \* db: token -> Invoice row [secret, nonce]
    config_debug,   \* app.config["DEBUG"]
    connected,      \* self.server.environ: the sids socketio knows
    rooms,          \* socketio rooms: room name (token) -> set of sids
    ws_invoices,    \* dict token -> sid
    ws_sids,        \* dict sid -> token
    pc,             \* sid -> "idle" | "checking": position of its on_auth
    session,        \* sid -> the Invoice its db.session loaded in check_auth
    out,            \* what the last handler step answered and emitted (event, to);
                    \* token is the room a broadcast named
    form,           \* the request in hand: utility (its fields), zbp_state,
                    \* zbp_amount, values (request.form)
    error,          \* what validate_values returned for the form
    details,        \* what bank_transaction_details returned for the form
    orders,         \* the broker's answers to the BrokerCreate requests, in order
    resp            \* the /utility handler's response

vars == <<invoices, config_debug, connected, rooms, ws_invoices, ws_sids, pc, session, out,
          form, error, details, orders, resp>>

hubVars == <<config_debug, connected, rooms, ws_invoices, ws_sids, pc, session, out>>

orchVars == <<form, error, details, orders, resp>>

\* ----------------------------------------------------------------- helpers
\* Python dict operations
DictSet(d, k, v) == [x \in (DOMAIN d) \cup {k} |-> IF x = k THEN v ELSE d[x]]

DictDel(d, k) == [x \in (DOMAIN d) \ {k} |-> d[x]]

EmptyDict == [x \in {} |-> 0]

\* characters are code points; a string is a sequence of characters
Ord(c) == CASE c = "-" -> 45 [] c = "0" -> 48 [] c = "A" -> 65

Digit(d) == Ord("0") + d

\* str(n) of a non-negative int
RECURSIVE Str(_)
Str(n) == IF n < 10 THEN <<Digit(n)>> ELSE Str(n \div 10) \o <<Digit(n % 10)>>

\* HMAC-SHA256 taken as collision free: the digest names its key and message
Hmac(secret, msg) == <<secret, msg>>

SecretOf(token) == <<"secret", token>>

ForgedKey == <<"forged", "key">>

NoSession == [token |-> UnknownToken, secret |-> ForgedKey, nonce |-> 0]

\* a handler that answers nothing and emits nothing
NoOut == [handler |-> "none", token |-> "", res |-> FALSE, reason |-> "",
          event |-> "", to |-> {}]

\* (mutant) check_hmac_auth comparing the nonce before the signature
check_hmac_auth_nonce_first(invoice, nonce, sig, body) ==
    IF nonce <= invoice.nonce
    THEN [res |-> FALSE, reason |-> "replayed nonce", invoice |-> invoice]
    ELSE IF sig # Hmac(invoice.secret, body)
    THEN [res |-> FALSE, reason |-> "bad signature", invoice |-> invoice]
    ELSE [res |-> TRUE, reason |-> "", invoice |-> [invoice EXCEPT !.nonce = nonce]]

\* utils.check_hmac_auth(invoice, nonce, sig, body): the signature, then the
\* nonce; on success the loaded invoice carries the new nonce
check_hmac_auth(invoice, nonce, sig, body) ==
    IF sig # Hmac(invoice.secret, body)
    THEN [res |-> FALSE, reason |-> "bad signature", invoice |-> invoice]
    ELSE IF nonce <= invoice.nonce
    THEN [res |-> FALSE, reason |-> "replayed nonce", invoice |-> invoice]
    ELSE [res |-> TRUE, reason |-> "", invoice |-> [invoice EXCEPT !.nonce = nonce]]

\* Invoice.from_token(db.session, token)
from_token(token) == IF token \in DOMAIN invoices THEN invoices[token] ELSE NoSession

\* (mutant) check_auth returns without db.session.commit()
CommitNothing(inv) == invoices

\* db.session.commit() of check_auth: the loaded invoice's nonce is written
\* to its row
CommitNonce(inv) == [invoices EXCEPT ![inv.token].nonce = inv.nonce]

\* --------------------------------------------------------------- FieldCodec
\* a result not computed yet
Unset == [kind |-> "unset", msg |-> "", field |-> ""]

\* Python's None
None == [kind |-> "none", msg |-> "", field |-> ""]

\* a returned error message, "<msg> '<field>'"
Err(msg, name) == [kind |-> "error", msg |-> msg, field |-> name]

\* an exception leaving the function
Raise(exc) == [kind |-> "raise", msg |-> exc, field |-> ""]

NoDetails == [kind |-> "unset", dict |-> EmptyDict]

NoForm == [fields |-> <<>>, state |-> "", amount |-> <<>>, values |-> EmptyDict]

\* requests: the BrokerCreate requests the handler call issued
NoResp == [status |-> "none", state |-> "", error |-> "", requests |-> 0]

Minus == Ord("-")

IsDigit(c) == c >= Digit(0) /\ c <= Digit(9)

\* str.lower() on the type names
Lower(t) == IF t = "String" THEN "string" ELSE IF t = "Number" THEN "number" ELSE t

\* value[:n] and value[n:]
Take(value, n) == SubSeq(value, 1, IF n < Len(value) THEN n ELSE Len(value))

Drop(value, n) == SubSeq(value, n + 1, Len(value))

\* the literals int() and decimal.Decimal() accept, among the values drawn
\* here: an optional minus and one or more digits
IsIntLiteral(value) ==
    LET digits == IF Len(value) > 0 /\ value[1] = Minus THEN Drop(value, 1) ELSE value
    IN  Len(digits) > 0 /\ \A i \in 1..Len(digits) : IsDigit(digits[i])

RECURSIVE DigitsValue(_)
DigitsValue(digits) ==
    IF Len(digits) = 0 THEN 0
    ELSE 10 * DigitsValue(Take(digits, Len(digits) - 1)) + (digits[Len(digits)] - Digit(0))

\* int(value), decimal.Decimal(value) of an accepted literal
ParseInt(value) ==
    IF value[1] = Minus THEN 0 - DigitsValue(Drop(value, 1)) ELSE DigitsValue(value)

\* isinstance(field["target"], list): a target is a list of slot names or one
\* slot name
IsList(target) == target.list

\* (mutant) the cap of a list target counts one slot too many
MaxCharsExtraSlot(field) ==
    IF IsList(field.target) THEN MAX_DETAIL_CHARS * (Len(field.target.names) + 1)
    ELSE MAX_DETAIL_CHARS

\* validate_values: max_chars of a field
MaxChars(field) ==
    IF IsList(field.target) THEN MAX_DETAIL_CHARS * Len(field.target.names)
    ELSE MAX_DETAIL_CHARS

\* validate_values: the body of the loop for one field
validate_field(field, values) ==
    LET name == field.label
    IN  IF name \notin DOMAIN values THEN Raise("KeyError")
        ELSE
        LET value == values[name]
            type_ == Lower(field.type)
        IN  IF value = <<>> /\ (~("allow_empty" \in DOMAIN field) \/ ~field.allow_empty)
            THEN Err("please enter a value for", name)
            ELSE IF type_ = "number" /\ ~IsIntLiteral(value)
            THEN Raise("ValueError")
            ELSE IF type_ = "number" /\ "min" \in DOMAIN field /\ ParseInt(value) < field.min
            THEN Err("has a minimum of", name)
            ELSE IF type_ = "number" /\ "max" \in DOMAIN field /\ ParseInt(value) > field.max
            THEN Err("has a maximum of", name)
            ELSE IF type_ = "string" /\ "min_chars" \in DOMAIN field
                    /\ Len(value) < field.min_chars
            THEN Err("has a minimum number of characters of", name)
            ELSE IF Len(value) > MaxChars(field)
            THEN Err("is too long", name)
            ELSE None

RECURSIVE validate_from(_, _, _)
validate_from(fields, values, i) ==
    IF i > Len(fields) THEN None
    ELSE LET r == validate_field(fields[i], values)
         IN  IF r # None THEN r ELSE validate_from(fields, values, i + 1)

\* validate_values(fields, values): the first field's error, an exception, or
\* None
validate_values(fields, values) == validate_from(fields, values, 1)

\* bank_transaction_details: the inner loop, for t in target from index i on
RECURSIVE split_into(_, _, _, _)
split_into(dict, names, i, value) ==
    IF i > Len(names) THEN dict
    ELSE split_into(DictSet(dict, names[i], Take(value, MAX_DETAIL_CHARS)), names, i + 1,
                    Drop(value, MAX_DETAIL_CHARS))

RECURSIVE pack_from(_, _, _, _)
pack_from(dict, fields, values, i) ==
    IF i > Len(fields) THEN [kind |-> "dict", dict |-> dict]
    ELSE LET field == fields[i]
             target == field.target
         IN  IF field.label \notin DOMAIN values THEN [kind |-> "raise", dict |-> EmptyDict]
             ELSE IF IsList(target)
             THEN pack_from(split_into(dict, target.names, 1, values[field.label]),
                            fields, values, i + 1)
             ELSE pack_from(DictSet(dict, target.names[1], values[field.label]),
                            fields, values, i + 1)

\* bank_transaction_details(utility, values): the details dict, or the
\* KeyError of a label the form lacks
bank_transaction_details(fields, values) == pack_from(EmptyDict, fields, values, 1)

\* ------------------------------------------------------------ sample inputs
MaxLen == MaxTargets * MAX_DETAIL_CHARS + 1

\* "ABC..." of length n
Letters(n) == [i \in 1..n |-> Ord("A") + ((i - 1) % 26)]

\* "00...07" of length n
NumStr(n) == [i \in 1..n |-> IF i = n THEN Digit(7) ELSE Digit(0)]

CodecValues ==
    {Letters(n) : n \in 0..MaxLen} \cup {NumStr(n) : n \in 1..MaxLen}
    \cup {<<Digit(0)>>, <<Digit(1), Digit(2)>>, <<Minus, Digit(3)>>}

SlotName(i) == IF i = 1 THEN "reference" ELSE IF i = 2 THEN "code" ELSE "particulars"

Scalar(name) == [list |-> FALSE, names |-> <<name>>]

List(names) == [list |-> TRUE, names |-> names]

NoKeys == [x \in {} |-> 0]

\* the optional keys of a field description
Options(type) ==
    {ae @@ bd : ae \in {NoKeys, [allow_empty |-> TRUE], [allow_empty |-> FALSE]},
                bd \in IF Lower(type) = "number" THEN {NoKeys, [min |-> 1, max |-> 9]}
                       ELSE {NoKeys, [min_chars |-> 2]}}

\* field descriptions for one label
FieldsFor(label, targets) ==
    {[label |-> label, type |-> ty, target |-> tg] @@ opt :
        ty \in {"number", "string", "String"}, tg \in targets,
        opt \in Options("number") \cup Options("string")}

Targets ==
    {Scalar("particulars")} \cup {List([i \in 1..n |-> SlotName(i)]) : n \in 1..MaxTargets}

\* Utility.fields_description_json: one field of any shape, or an account
\* split over two slots followed by a scalar field
Schemas ==
    {<<f>> : f \in FieldsFor("account", Targets)}
    \cup {<<[label |-> "account", type |-> "string",
              target |-> List(<<"reference", "code">>), min_chars |-> 1], g>> :
            g \in FieldsFor("note", {Scalar("particulars")})}

Labels(fields) == {fields[i].label : i \in 1..Len(fields)}

NoteValues == {<<>>, Letters(3), Letters(MAX_DETAIL_CHARS + 1)}

\* request.form for a utility: a value for every label, or no label at all
ValuesFor(fields) ==
    {v \in [Labels(fields) -> CodecValues] : "note" \in DOMAIN v => v["note"] \in NoteValues}
    \cup {EmptyDict}

\* ----------------------------------------------------------------- actions
Init ==
    /\ invoices = [t \in Tokens |-> [token |-> t, secret |-> SecretOf(t), nonce |-> 0]]
    /\ config_debug \in BOOLEAN
    /\ connected = {}
    /\ rooms = [t \in Tokens |-> {}]
    /\ ws_invoices = EmptyDict
    /\ ws_sids = EmptyDict
    /\ pc = [s \in Sids |-> "idle"]
    /\ session = [s \in Sids |-> NoSession]
    /\ out = NoOut
    /\ form = NoForm
    /\ error = Unset
    /\ details = NoDetails
    /\ orders = <<>>
    /\ resp = NoResp

\* SocketIoNamespace.on_connect
on_connect(sid) ==
    /\ sid \notin connected
    /\ connected' = connected \cup {sid}
    /\ out' = [NoOut EXCEPT !.handler = "connect"]
    /\ UNCHANGED <<invoices, config_debug, rooms, ws_invoices, ws_sids, pc, session>>
    /\ UNCHANGED orchVars

\* on_auth -> check_auth, up to the row lookup (Invoice.from_token).  An
\* unknown token ends the handler here: check_auth returns "not found" and
\* on_auth does nothing more.
check_auth_lookup(sid, token) ==
    /\ sid \in connected
    /\ pc[sid] = "idle"
    /\ IF token \notin DOMAIN invoices
       THEN /\ out' = [NoOut EXCEPT !.handler = "auth", !.reason = "not found"]
            /\ UNCHANGED <<pc, session>>
       ELSE /\ pc' = [pc EXCEPT ![sid] = "checking"]
            /\ session' = [session EXCEPT ![sid] = from_token(token)]
            /\ out' = NoOut
    /\ UNCHANGED <<invoices, config_debug, connected, rooms, ws_invoices, ws_sids>>
    /\ UNCHANGED orchVars

\* (mutant) check_auth committing the presented nonce before it looks at the
\* result
check_auth_commit_first(inv, nonce, sig, body) ==
    LET r == check_hmac_auth(inv, nonce, sig, body)
    IN  [res |-> r.res, reason |-> r.reason,
         db |-> [invoices EXCEPT ![inv.token].nonce = nonce]]

\* check_auth from check_hmac_auth on, for the invoice `inv` the session
\* loaded: the result, the reason and the rows after the commit
check_auth_loaded(inv, nonce, sig, body) ==
    LET r == check_hmac_auth(inv, nonce, sig, body)
    IN  IF ~r.res THEN [res |-> FALSE, reason |-> r.reason, db |-> invoices]
        ELSE [res |-> TRUE, reason |-> "", db |-> CommitNonce(r.invoice)]

\* check_auth(token, nonce, sig, body)
check_auth(token, nonce, sig, body) ==
    IF token \notin DOMAIN invoices
    THEN [res |-> FALSE, reason |-> "not found", db |-> invoices]
    ELSE check_auth_loaded(from_token(token), nonce, sig, body)

\* (mutant) on_auth without its `if res:`
on_auth_unguarded(sid, token, auth) ==
    /\ invoices' = auth.db
    /\ rooms' = [rooms EXCEPT ![token] = @ \cup {sid}]
    /\ ws_invoices' = DictSet(ws_invoices, token, sid)
    /\ ws_sids' = DictSet(ws_sids, sid, token)
    /\ out' = [NoOut EXCEPT !.handler = "auth", !.token = token, !.res = auth.res,
                            !.reason = auth.reason,
                            !.event = IF auth.res THEN "info" ELSE "",
                            !.to = IF auth.res THEN {sid} ELSE {}]

\* on_auth once check_auth has returned `auth`: on success the emit,
\* join_room and the two dict writes
on_auth_result(sid, token, auth) ==
    /\ invoices' = auth.db
    /\ IF auth.res
       THEN /\ rooms' = [rooms EXCEPT ![token] = @ \cup {sid}]
            /\ ws_invoices' = DictSet(ws_invoices, token, sid)
            /\ ws_sids' = DictSet(ws_sids, sid, token)
            /\ out' = [NoOut EXCEPT !.handler = "auth", !.token = token, !.res = TRUE,
                                    !.event = "info", !.to = {sid}]
       ELSE /\ out' = [NoOut EXCEPT !.handler = "auth", !.reason = auth.reason]
            /\ UNCHANGED <<rooms, ws_invoices, ws_sids>>

\* the second step of an on_auth that other handlers interleave with
on_auth_finish(sid, nonce, sig) ==
    /\ pc[sid] = "checking"
    /\ on_auth_result(sid, session[sid].token,
                      check_auth_loaded(session[sid], nonce, sig, Str(nonce)))
    /\ pc' = [pc EXCEPT ![sid] = "idle"]
    /\ session' = [session EXCEPT ![sid] = NoSession]
    /\ UNCHANGED <<config_debug, connected>>
    /\ UNCHANGED orchVars

\* SocketIoNamespace.on_auth run from its start to its end with no other
\* handler in between
on_auth(sid, token, nonce, sig) ==
    /\ sid \in connected
    /\ pc[sid] = "idle"
    /\ on_auth_result(sid, token, check_auth(token, nonce, sig, Str(nonce)))
    /\ UNCHANGED <<config_debug, connected, pc, session>>
    /\ UNCHANGED orchVars

\* (mutant) on_disconnect with `del ws_sids[request.sid]` under the inner if
on_disconnect_nested(sid) ==
    /\ sid \in connected
    /\ pc[sid] = "idle"
    /\ IF sid \in DOMAIN ws_sids /\ ws_sids[sid] \in DOMAIN ws_invoices
       THEN /\ ws_invoices' = DictDel(ws_invoices, ws_sids[sid])
            /\ ws_sids' = DictDel(ws_sids, sid)
       ELSE UNCHANGED <<ws_invoices, ws_sids>>
    /\ rooms' = [t \in DOMAIN rooms |-> rooms[t] \ {sid}]
    /\ connected' = connected \ {sid}
    /\ out' = [NoOut EXCEPT !.handler = "disconnect"]
    /\ UNCHANGED <<invoices, config_debug, pc, session>>
    /\ UNCHANGED orchVars

\* SocketIoNamespace.on_disconnect, then socketio's own disconnect of the
\* sid, which drops it from every room and from server.environ
on_disconnect(sid) ==
    /\ sid \in connected
    /\ pc[sid] = "idle"
    /\ IF sid \in DOMAIN ws_sids
       THEN LET token == ws_sids[sid]
            IN  /\ ws_invoices' = IF token \in DOMAIN ws_invoices
                                  THEN DictDel(ws_invoices, token)
                                  ELSE ws_invoices
                /\ ws_sids' = DictDel(ws_sids, sid)
       ELSE UNCHANGED <<ws_invoices, ws_sids>>
    /\ rooms' = [t \in DOMAIN rooms |-> rooms[t] \ {sid}]
    /\ connected' = connected \ {sid}
    /\ out' = [NoOut EXCEPT !.handler = "disconnect"]
    /\ UNCHANGED <<invoices, config_debug, pc, session>>
    /\ UNCHANGED orchVars

\* alert_invoice_update(invoice): "update" to the room named invoice.token
alert_invoice_update(token) ==
    /\ token \in DOMAIN invoices
    /\ out' = [NoOut EXCEPT !.handler = "alert", !.token = token, !.res = TRUE,
                            !.event = "update", !.to = rooms[token]]
    /\ UNCHANGED <<invoices, config_debug, connected, rooms, ws_invoices, ws_sids, pc, session>>
    /\ UNCHANGED orchVars

\* test_invoice(token): the debug re-send
test_invoice(token) ==
    /\ IF ~config_debug
       THEN out' = [NoOut EXCEPT !.handler = "test", !.token = token, !.reason = "404"]
       ELSE IF token \in DOMAIN ws_invoices
       THEN out' = [NoOut EXCEPT !.handler = "test", !.token = token, !.res = TRUE,
                                 !.event = "info", !.to = rooms[token]]
       ELSE out' = [NoOut EXCEPT !.handler = "test", !.token = token,
                                 !.res = (token \in DOMAIN invoices),
                                 !.reason = IF token \in DOMAIN invoices THEN "" ELSE "404"]
    /\ UNCHANGED <<invoices, config_debug, connected, rooms, ws_invoices, ws_sids, pc, session>>
    /\ UNCHANGED orchVars

\* the signatures a client presents for (token, nonce): the invoice's own over
\* this nonce, the invoice's own over another nonce, one under a foreign key
SigsFor(token, nonce) ==
    {Hmac(SecretOf(token), Str(nonce)),
     Hmac(SecretOf(token), Str((nonce % MaxNonce) + 1)),
     Hmac(ForgedKey, Str(nonce))}

Next ==
    \/ \E sid \in Sids : on_connect(sid)
    \/ \E sid \in Sids, token \in Tokens \cup {UnknownToken} : check_auth_lookup(sid, token)
    \/ \E sid \in Sids, nonce \in Nonces :
          \E sig \in SigsFor(session[sid].token, nonce) : on_auth_finish(sid, nonce, sig)
    \/ \E sid \in Sids : on_disconnect(sid)
    \/ \E token \in Tokens : alert_invoice_update(token)
    \/ \E token \in Tokens \cup {UnknownToken} : test_invoice(token)

Spec == Init /\ [][Next]_vars

\* The handlers run one after the other, each to its end: the behaviours of a
\* sequence of calls.
SeqNext ==
    \/ \E sid \in Sids : on_connect(sid)
    \/ \E sid \in Sids, token \in Tokens \cup {UnknownToken}, nonce \in Nonces :
          \E sig \in SigsFor(token, nonce) : on_auth(sid, token, nonce, sig)
    \/ \E sid \in Sids : on_disconnect(sid)
    \/ \E token \in Tokens : alert_invoice_update(token)
    \/ \E token \in Tokens \cup {UnknownToken} : test_invoice(token)

SpecSeq == Init /\ [][SeqNext]_vars

\* ------------------------------------------------------ InvoiceOrchestrator
\* what the broker does with a BrokerCreate request: a 2xx answer, another
\* status, a refused or broken connection, no answer at all
Answers == {"ok", "http_error", "conn_error", "no_answer"}

\* amountSend and amountReceive of a 2xx answer
BrokerReplies == {[amountSend |-> 3, amountReceive |-> 5]}

\* int(decimal.Decimal(x) * 100)
Cents(x) == x * 100

\* (mutant) raise_for_status() left out: any HTTP answer counts as success
StatusIgnored(answer) == answer \in {"ok", "http_error"}

\* r.raise_for_status() does not raise
StatusOk(answer) == answer = "ok"

\* create_invoice(utility, details, amount) when the broker answers `answer`
\* (`reply` on success) to the order numbered n: the answers to the requests
\* it issued, how it ended, and the Invoice it added and committed
create_invoice(dets, amount, answer, reply, n) ==
    IF answer = "no_answer"
    THEN [answers |-> <<answer>>, ended |-> "blocked", rows |-> EmptyDict]
    ELSE IF answer = "conn_error"
    THEN [answers |-> <<answer>>, ended |-> "raise", rows |-> EmptyDict]
    ELSE IF ~StatusOk(answer)
    THEN [answers |-> <<answer>>, ended |-> "None", rows |-> EmptyDict]
    ELSE [answers |-> <<answer>>, ended |-> "invoice",
          rows |-> DictSet(EmptyDict, n,
                           [token |-> n, secret |-> SecretOf(n), nonce |-> 0,
                            amount_cents |-> Cents(reply.amountSend),
                            amount_cents_nzd |-> Cents(reply.amountReceive),
                            broker_token |-> n])]

\* utility(): STATE_CREATE, the amount check and validate_values inside the
\* try; the error message, "" for None
create_error(fields, amount, values) ==
    IF ~IsIntLiteral(amount) THEN "amount must be valid number"
    ELSE IF ParseInt(amount) <= 0 THEN "amount must be greater then zero"
    ELSE LET v == validate_values(fields, values)
         IN  IF v.kind = "raise" THEN "amount must be valid number"
             ELSE IF v.kind = "error" THEN v.msg
             ELSE ""

\* the /utility view for one request
utility(method, fields, state, amount, values, answer, reply) ==
    /\ UNCHANGED hubVars
    /\ IF method = "GET"
       THEN /\ resp' = [NoResp EXCEPT !.status = "render", !.state = "create"]
            /\ form' = NoForm
            /\ error' = Unset
            /\ details' = NoDetails
            /\ UNCHANGED <<invoices, orders>>
       ELSE
       /\ form' = [fields |-> fields, state |-> state, amount |-> amount, values |-> values]
       /\ IF state = "create"
          THEN LET err == create_error(fields, amount, values)
               IN  /\ resp' = [NoResp EXCEPT !.status = "render", !.error = err,
                                             !.state = IF err = "" THEN "check" ELSE "create"]
                   /\ error' = IF IsIntLiteral(amount) /\ ParseInt(amount) > 0
                               THEN validate_values(fields, values) ELSE Unset
                   /\ details' = NoDetails
                   /\ UNCHANGED <<invoices, orders>>
          ELSE IF state = "check"
          THEN LET dets == bank_transaction_details(fields, values)
                   made == create_invoice(dets, amount, answer, reply, Len(orders) + 1)
               IN  /\ error' = Unset
                   /\ details' = dets
                   /\ IF dets.kind = "raise"
                      THEN /\ resp' = [NoResp EXCEPT !.status = "400", !.state = state]
                           /\ UNCHANGED <<invoices, orders>>
                      ELSE /\ Len(orders) < MaxOrders
                           /\ orders' = orders \o made.answers
                           /\ invoices' = made.rows @@ invoices
                           /\ resp' = [status |-> CASE made.ended = "invoice" -> "redirect"
                                                    [] made.ended = "None" -> "render"
                                                    [] made.ended = "raise" -> "500"
                                                    [] OTHER -> "blocked",
                                       state |-> state,
                                       error |-> IF made.ended = "None"
                                                 THEN "failed to create invoice" ELSE "",
                                       requests |-> Len(made.answers)]
          ELSE /\ resp' = [NoResp EXCEPT !.status = "render", !.state = state]
               /\ error' = Unset
               /\ details' = NoDetails
               /\ UNCHANGED <<invoices, orders>>

OrchSchemas ==
    {<<[label |-> "account", type |-> "string",
        target |-> List(<<"reference", "code">>), min_chars |-> 1]>>,
     <<[label |-> "account", type |-> "string",
        target |-> List(<<"reference", "code">>), min_chars |-> 1],
       [label |-> "note", type |-> "number", target |-> Scalar("particulars"),
        allow_empty |-> TRUE, min |-> 1, max |-> 9]>>}

\* request.form for a utility: a value for every label, or no label at all
OrchValuesFor(fields) ==
    {v \in [Labels(fields) -> {<<>>, <<Digit(7)>>, Letters(16), Letters(MaxLen)}] :
        /\ v["account"] # <<Digit(7)>>
        /\ "note" \in DOMAIN v => v["note"] \in {<<>>, <<Digit(7)>>}}
    \cup {EmptyDict}

\* zbp_amount: "0", "5", "-1", "ABC"
Amounts == {<<Digit(0)>>, <<Digit(5)>>, <<Minus, Digit(1)>>, Letters(3)}

OrchInit ==
    /\ invoices = EmptyDict
    /\ config_debug = FALSE
    /\ connected = {}
    /\ rooms = [t \in Tokens |-> {}]
    /\ ws_invoices = EmptyDict
    /\ ws_sids = EmptyDict
    /\ pc = [s \in Sids |-> "idle"]
    /\ session = [s \in Sids |-> NoSession]
    /\ out = NoOut
    /\ form = NoForm
    /\ error = Unset
    /\ details = NoDetails
    /\ orders = <<>>
    /\ resp = NoResp

\* a GET; a POST whose zbp_state is not "check", which reaches no broker; a
\* POST with zbp_state "check" and the broker's answer to it
OrchNext ==
    \/ \E fields \in OrchSchemas, reply \in BrokerReplies :
          utility("GET", fields, "", <<>>, EmptyDict, "ok", reply)
    \/ \E fields \in OrchSchemas, state \in {"create", ""}, amount \in Amounts,
          reply \in BrokerReplies :
          \E values \in OrchValuesFor(fields) :
              utility("POST", fields, state, amount, values, "ok", reply)
    \/ \E fields \in OrchSchemas, amount \in Amounts, answer \in Answers,
          reply \in BrokerReplies :
          \E values \in OrchValuesFor(fields) :
              utility("POST", fields, "check", amount, values, answer, reply)

SpecOrch == OrchInit /\ [][OrchNext]_vars

\* ------------------------------------------------------- FieldCodec alone
\* validate_values and bank_transaction_details applied to one form
CodecInit ==
    /\ invoices = EmptyDict
    /\ config_debug = FALSE
    /\ connected = {}
    /\ rooms = [t \in Tokens |-> {}]
    /\ ws_invoices = EmptyDict
    /\ ws_sids = EmptyDict
    /\ pc = [s \in Sids |-> "idle"]
    /\ session = [s \in Sids |-> NoSession]
    /\ out = NoOut
    /\ \E fields \in Schemas : \E values \in ValuesFor(fields) :
          form = [NoForm EXCEPT !.fields = fields, !.values = values]
    /\ error = Unset
    /\ details = NoDetails
    /\ orders = <<>>
    /\ resp = NoResp

do_validate ==
    /\ error = Unset
    /\ error' = validate_values(form.fields, form.values)
    /\ UNCHANGED <<invoices, hubVars, form, details, orders, resp>>

do_pack ==
    /\ details = NoDetails
    /\ details' = bank_transaction_details(form.fields, form.values)
    /\ UNCHANGED <<invoices, hubVars, form, error, orders, resp>>

CodecNext == do_validate \/ do_pack

SpecCodec == CodecInit /\ [][CodecNext]_vars

\* ------------------------------------------------------------------ claims
\* the connections whose current binding (their last accepted auth, not yet
\* disconnected) is `token`
Subscribers(token) == {s \in DOMAIN ws_sids : ws_sids[s] = token}

RoomsOf(sid) == {t \in Tokens : sid \in rooms[t]}

ValidSig(token, nonce) == Hmac(invoices[token].secret, Str(nonce))

\* C1: an attempt is accepted only when its nonce is greater than the
\* invoice's last_nonce at the moment its new last_nonce is committed: the
\* read, the comparison and the commit are one critical section, so no two
\* attempts pass against the same stale value.
C1_AtomicNonceCheck ==
    [][\A sid \in Sids, nonce \in Nonces :
          (/\ pc[sid] = "checking"
           /\ on_auth_finish(sid, nonce, ValidSig(session[sid].token, nonce))
           /\ out'.res)
          => nonce > invoices[session[sid].token].nonce]_vars

\* C2: in every state, a call of check_auth with a valid signature is
\* accepted iff its nonce is greater than the invoice's last_nonce; accepted,
\* it commits that nonce as last_nonce and touches no other invoice;
\* rejected (a replayed nonce), it leaves every row as it was; whatever the
\* signature, no call lowers a last_nonce.
C2_NonceMonotonic ==
    \A token \in Tokens, nonce \in Nonces :
       /\ LET auth == check_auth(token, nonce, ValidSig(token, nonce), Str(nonce))
          IN  /\ auth.res <=> (nonce > invoices[token].nonce)
              /\ auth.res => auth.db = [invoices EXCEPT ![token].nonce = nonce]
              /\ ~auth.res => (auth.db = invoices /\ auth.reason = "replayed nonce")
       /\ \A sig \in SigsFor(token, nonce), t \in Tokens :
             check_auth(token, nonce, sig, Str(nonce)).db[t].nonce >= invoices[t].nonce

\* C2 witness: a nonce was accepted and advanced last_nonce to the largest
\* nonce, and a replay has just been rejected
C2_Witness ==
    /\ out.handler = "auth"
    /\ out.reason = "replayed nonce"
    /\ invoices["tokenA"].nonce = MaxNonce

\* C3: a connection is a member of at most one room.
C3_AtMostOneRoom == \A sid \in Sids : Cardinality(RoomsOf(sid)) <= 1

\* C4: an "update" broadcast for a token is never delivered to a connection
\* whose current binding is a different token.
C4_RoomIsolation ==
    out.event = "update"
    => \A sid \in out.to : ~(sid \in DOMAIN ws_sids /\ ws_sids[sid] # out.token)

\* C5: while a token's room still has a member, the hub's record for the
\* token (ws_invoices) exists: it is removed only when the last one leaves.
C5_RoomRecordKept == \A token \in Tokens : rooms[token] # {} => token \in DOMAIN ws_invoices

\* C6: a broadcast for a token (the status update, or the debug re-send
\* with DEBUG set) reaches every connection currently bound to the token.
C6_BroadcastComplete ==
    (out.handler = "alert" \/ (out.handler = "test" /\ config_debug))
    => Subscribers(out.token) \subseteq out.to

RECURSIVE Concat(_, _, _)
Concat(dict, names, i) ==
    IF i > Len(names) THEN <<>> ELSE dict[names[i]] \o Concat(dict, names, i + 1)

\* characters lo..hi of value, as far as it reaches
Chunk(value, lo, hi) == [i \in 1..((IF hi < Len(value) THEN hi ELSE Len(value)) - lo + 1)
                            |-> value[lo + i - 1]]

FormValidated ==
    /\ IsIntLiteral(form.amount)
    /\ ParseInt(form.amount) > 0
    /\ validate_values(form.fields, form.values) = None

\* C7: bank_transaction_details and the remote order request are executed
\* only for a form on which the amount check and validate_values succeeded.
C7_ValidatedBeforeRemote ==
    (details.kind = "dict" \/ resp.requests > 0) => FormValidated

\* the invoices that carry the broker token of order i
InvoicesOf(i) == {t \in DOMAIN invoices : invoices[t].broker_token = i}

C9_UnreachableIsFailure ==
    (resp.requests > 0 /\ orders[Len(orders)] \in {"conn_error", "no_answer"})
    => (resp.status = "render" /\ resp.error = "failed to create invoice")

\* the (connection, token) pairs the hub holds: room members, reverse
\* bindings, room records
Held(r, wi, ws) ==
    {<<sid, t>> \in Sids \X Tokens :
        \/ sid \in r[t]
        \/ (sid \in DOMAIN ws /\ ws[sid] = t)
        \/ (t \in DOMAIN wi /\ wi[t] = sid)}

C12_FailedAuthSilent ==
    [][(out'.handler = "auth" /\ ~out'.res)
       => /\ out'.reason \in {"not found", "bad signature", "replayed nonce"}
          /\ out'.event = "" /\ out'.to = {}
          /\ UNCHANGED <<rooms, ws_invoices, ws_sids, invoices>>]_vars

\* C12 witness: an auth has failed on a hub that holds rooms and bindings
C12_Witness ==
    /\ out.handler = "auth" /\ ~out.res /\ out.reason = "bad signature"
    /\ \A sid \in Sids : sid \in DOMAIN ws_sids
    /\ \E t \in Tokens : invoices[t].nonce > 0 /\ invoices[t].nonce < MaxNonce

C14_CheckOrder ==
    /\ \A nonce \in Nonces : \A sig \in SigsFor(UnknownToken, nonce) :
          LET auth == check_auth(UnknownToken, nonce, sig, Str(nonce))
          IN  ~auth.res /\ auth.reason = "not found" /\ auth.db = invoices
    /\ \A token \in Tokens, nonce \in Nonces :
          \A sig \in SigsFor(token, nonce) \ {ValidSig(token, nonce)} :
             LET auth == check_auth(token, nonce, sig, Str(nonce))
             IN  ~auth.res /\ auth.reason = "bad signature" /\ auth.db = invoices

\* C14 witness: an auth was rejected as a bad signature when every nonce it
\* could carry was a used one
C14_Witness ==
    /\ out.handler = "auth" /\ out.reason = "bad signature"
    /\ \A t \in Tokens : invoices[t].nonce = MaxNonce

\* C15: validate_values, given an empty value for the first field, raises
\* nothing; it returns the missing-value error when the field does not set
\* allow_empty, and no error about that field when the field sets
\* allow_empty, be the field a number or a string.
C15_EmptyValues ==
    (error # Unset /\ form.values # EmptyDict /\ form.values[form.fields[1].label] = <<>>)
    => LET field == form.fields[1]
           allow == "allow_empty" \in DOMAIN field /\ field.allow_empty
       IN  /\ error.kind # "raise"
           /\ IF allow THEN error.field # field.label
              ELSE error = Err("please enter a value for", field.label)

\* C16: once no connection is left (every connection that authenticated has
\* disconnected), ws_invoices and ws_sids are both empty: no token is still
\* recorded as having a room.
C16_NoEntryOutlivesSubscribers ==
    connected = {} => (ws_invoices = EmptyDict /\ ws_sids = EmptyDict)

\* C17: ws_sids[sid] = token implies token is a key of ws_invoices, and
\* ws_invoices[token] = sid implies that sid is connected and
\* ws_sids[sid] = token.
C17_MapsConsistent ==
    /\ \A sid \in DOMAIN ws_sids : ws_sids[sid] \in DOMAIN ws_invoices
    /\ \A token \in DOMAIN ws_invoices :
          LET sid == ws_invoices[token]
          IN  sid \in connected /\ sid \in DOMAIN ws_sids /\ ws_sids[sid] = token

====
